---- MODULE Spec2Model ----
(***************************************************************************)
(* Model of the BRS save writer (src/src/write.rs): SaveWriter::write and  *)
(* its parts write_header0/1/2, write_preview, write_bricks, and the block *)
(* framer write_compressed.                                                *)
(*                                                                         *)
(* The sink is the caller's `Write`; every call the writer makes on it is  *)
(* recorded in `writes`, with whether it succeeded.  In-memory buffers     *)
(* (`Vec<u8>`) never fail.  A Rust panic (HashMap index on a missing key)  *)
(* ends the run with outcome "panic".                                      *)
(***************************************************************************)
EXTENDS Integers, Sequences, FiniteSets, TLC

VARIABLES
    doc,              \* self.data: the SaveData being written
    input,            \* the Vec<u8> handed to a stand-alone write_compressed
    pc,               \* position of the writer
    sec,              \* which block write_compressed is writing
    vec,              \* the in-memory buffer being built / being framed
    i,                \* loop index of the brick loop (0-based)
    component_bricks, \* HashMap<String, Vec<u32>> of write_bricks
    todo,             \* components of data.components not yet iterated
    writes,           \* calls made on the sink so far: [part, n, data, ok]
    outcome,          \* "running" | "ok" | "io_error" | "panic"
    result            \* what read_block returned for the emitted block

vars == <<doc, input, pc, sec, vec, i, component_bricks, todo, writes, outcome, result>>

----------------------------------------------------------------------------
(* Bounds of the model *)

MaxLen == 12
MaxBricks == 3
MaxTable == 3

----------------------------------------------------------------------------
(* Generic helpers *)

Max(a, b) == IF a >= b THEN a ELSE b

RECURSIVE Pow2(_)
Pow2(n) == IF n = 0 THEN 1 ELSE 2 * Pow2(n - 1)

RECURSIVE Concat(_)
Concat(ss) == IF ss = <<>> THEN <<>> ELSE Head(ss) \o Concat(Tail(ss))

RECURSIVE SetToSeq(_)
SetToSeq(S) ==
    IF S = {} THEN <<>>
    ELSE LET x == CHOOSE y \in S : TRUE IN <<x>> \o SetToSeq(S \ {x})

----------------------------------------------------------------------------
(* Bytes: little-endian i32, Adler-32, and the zlib stream *)

Byte(n) == n % 256

\* write_i32::<LittleEndian>(n)
LE32(n) == <<Byte(n), Byte(n \div 256), Byte(n \div 65536), Byte(n \div 16777216)>>

\* read_i32::<LittleEndian> of four bytes
FromLE32(b) ==
    b[1] + 256 * b[2] + 65536 * b[3]
      + 16777216 * (IF b[4] >= 128 THEN b[4] - 256 ELSE b[4])

RECURSIVE AdlerA(_)
AdlerA(data) ==
    IF data = <<>> THEN 1
    ELSE (AdlerA(SubSeq(data, 1, Len(data) - 1)) + data[Len(data)]) % 65521

RECURSIVE AdlerB(_)
AdlerB(data) ==
    IF data = <<>> THEN 0
    ELSE (AdlerB(SubSeq(data, 1, Len(data) - 1)) + AdlerA(data)) % 65521

\* the Adler-32 trailer of a zlib stream, big-endian
Adler32(data) ==
    <<AdlerB(data) \div 256, AdlerB(data) % 256,
      AdlerA(data) \div 256, AdlerA(data) % 256>>

\* length of the run of equal bytes that starts data
RECURSIVE RunLen(_)
RunLen(data) ==
    IF Len(data) <= 1 THEN Len(data)
    ELSE IF data[2] = data[1] THEN 1 + RunLen(Tail(data)) ELSE 1

\* the deflate body: a run-length stand-in for LZ77 (byte, run length)
RECURSIVE DeflateRuns(_)
DeflateRuns(data) ==
    IF data = <<>> THEN <<>>
    ELSE LET r == RunLen(data)
         IN <<data[1], r>> \o DeflateRuns(SubSeq(data, r + 1, Len(data)))

\* the empty input deflates to the two bytes 03 00 (one empty fixed block)
Deflate(data) == IF data = <<>> THEN <<3, 0>> ELSE DeflateRuns(data) \o <<0, 0>>

\* zlib stream of data at the default level: 78 9C, deflate body, Adler-32
ZlibOf(data) == <<120, 156>> \o Deflate(data) \o Adler32(data)

RECURSIVE Repeat(_, _)
Repeat(b, n) == IF n = 0 THEN <<>> ELSE <<b>> \o Repeat(b, n - 1)

RECURSIVE InflateRuns(_)
InflateRuns(body) ==
    IF Len(body) < 2 \/ body[2] = 0 THEN <<>>
    ELSE Repeat(body[1], body[2]) \o InflateRuns(SubSeq(body, 3, Len(body)))

\* inverse of ZlibOf; ok is FALSE on a malformed stream or a bad checksum
Inflate(z) ==
    IF Len(z) < 8 \/ z[1] # 120 \/ z[2] # 156
    THEN [ok |-> FALSE, bytes |-> <<>>]
    ELSE LET body == SubSeq(z, 3, Len(z) - 4)
             out  == IF body = <<3, 0>> THEN <<>> ELSE InflateRuns(body)
         IN [ok    |-> /\ Deflate(out) = body
                       /\ Adler32(out) = SubSeq(z, Len(z) - 3, Len(z)),
             bytes |-> out]

----------------------------------------------------------------------------
(* write_compressed *)

\* ZlibEncoder::new(vec.clone(), level).finish(): the encoder's underlying
\* writer is the clone of vec, nothing is written into the encoder, and
\* finish() appends the (empty) stream to that writer and returns it.
CompressedOf(v) == v \o ZlibOf(<<>>)

\* write_compressed that stores the raw length in compressed_len
BlockWritesRawLen(v) ==
    <<[part |-> "ulen", n |-> Len(v), data |-> <<>>],
      [part |-> "clen", n |-> Len(v), data |-> <<>>],
      [part |-> "payload", n |-> Len(v), data |-> v]>>

\* the three sink writes of write_compressed(writer, v), in order
BlockWrites(v) ==
    LET compressed == CompressedOf(v)
    IN IF Len(compressed) < Len(v)
       THEN <<[part |-> "ulen", n |-> Len(v), data |-> <<>>],
              [part |-> "clen", n |-> Len(compressed), data |-> <<>>],
              [part |-> "payload", n |-> Len(compressed), data |-> compressed]>>
       ELSE <<[part |-> "ulen", n |-> Len(v), data |-> <<>>],
              [part |-> "clen", n |-> 0, data |-> <<>>],
              [part |-> "payload", n |-> Len(v), data |-> v]>>

----------------------------------------------------------------------------
(* Bit packer and primitive codec, as fields appended to an in-memory buffer. *)
(* A buffer is a sequence of fields; each field records the operation that  *)
(* wrote it and, for write_uint, its second argument and its width.         *)

Tok(f, op, v, n, bits, s, c) ==
    [f |-> f, op |-> op, v |-> v, n |-> n, bits |-> bits, s |-> s, c |-> c]

\* number of bits of an unsigned field that holds the values below max
RECURSIVE BitsFor(_)
BitsFor(max) == IF max <= 1 THEN 0 ELSE 1 + BitsFor((max + 1) \div 2)

\* bits.write_uint(value, max)
WriteUint(f, value, max) == <<Tok(f, "uint", value, max, BitsFor(max), "", "")>>

WriteBit(f, b) == <<Tok(f, "bit", IF b THEN 1 ELSE 0, 0, 1, "", "")>>
WriteUintPacked(f, v) == <<Tok(f, "uint_packed", v, 0, -1, "", "")>>
WriteIntPacked(f, v) == <<Tok(f, "int_packed", v, 0, -1, "", "")>>
WriteRawBytes(f, v, len) == <<Tok(f, "bytes", v, len, 8 * len, "", "")>>
WriteI32(f, v) == <<Tok(f, "i32", v, 0, 32, "", "")>>
WriteString(f, s) == <<Tok(f, "string", 0, 0, -1, s, "")>>
WriteUuid(f, id) == <<Tok(f, "uuid", id, 16, 128, "", "")>>
ByteAlign == <<Tok("align", "align", 0, 0, -1, "", "")>>

\* write_array of len elements, elements identified by their position
RECURSIVE ArrayElems(_, _)
ArrayElems(f, len) ==
    IF len = 0 THEN <<>>
    ELSE ArrayElems(f, len - 1) \o <<Tok(f, "elem", len - 1, 0, -1, "", "")>>

WriteArray(f, len) == WriteI32(f, len) \o ArrayElems(f, len)

----------------------------------------------------------------------------
(* Program constants *)

OrientationMax == 24
IntensityMax == 11
MinCardinality == 2

----------------------------------------------------------------------------
(* write_header1 / write_header2 / write_preview: the buffers they build *)

Header1Bytes(d) ==
    LET h    == d.header1
        host == IF h.host.some THEN h.host ELSE [some |-> TRUE, id |-> h.author.id,
                                                 name |-> h.author.name]
    IN Concat(<<WriteString("map", h.map),
                WriteString("author.name", h.author.name),
                WriteString("description", h.description),
                WriteUuid("author.id", h.author.id),
                WriteString("host.name", host.name),
                WriteUuid("host.id", host.id),
                WriteRawBytes("save_time", h.save_time, 8),
                WriteI32("brick_count", Len(d.bricks))>>)

Header2Bytes(d) ==
    LET h == d.header2
    IN Concat(<<WriteArray("mods", h.mods),
                WriteArray("brick_assets", h.brick_assets),
                WriteArray("colors", h.colors),
                WriteArray("materials", h.materials),
                WriteArray("brick_owners", h.brick_owners),
                WriteArray("physical_materials", h.physical_materials)>>)

----------------------------------------------------------------------------
(* write_bricks: cardinalities, the brick record, the index accumulation *)

\* the table length used without the floor
CardinalityNoFloor(len) == len

\* cmp::max(table.len(), 2)
Cardinality2(len) == Max(len, MinCardinality)

asset_name_count(d) == Cardinality2(d.header2.brick_assets)
material_count(d) == Cardinality2(d.header2.materials)
physical_material_count(d) == Cardinality2(d.header2.physical_materials)
color_count(d) == Cardinality2(d.header2.colors)
brick_count(d) == Len(d.bricks)

\* cmp::max(brick_count as u32, 2), the cardinality of a component brick index
BrickIndexCardinality(d) == Max(brick_count(d), MinCardinality)

\* ((brick.direction as u32) << 2) | (brick.rotation as u32), rotation < 4
Orientation(b) == b.direction * 4 + b.rotation

\* the orientation written as a 24-bit wide field
OrientationFieldWide(b) == WriteUint("orientation", Orientation(b), Pow2(OrientationMax))

OrientationField(b) == WriteUint("orientation", Orientation(b), OrientationMax)
IntensityField(b) == WriteUint("material_intensity", b.material_intensity, IntensityMax)

SizeField(b) ==
    IF b.size = <<>> THEN WriteBit("procedural", FALSE)
    ELSE Concat(<<WriteBit("procedural", TRUE),
                  WriteUintPacked("size.x", b.size[1]),
                  WriteUintPacked("size.y", b.size[2]),
                  WriteUintPacked("size.z", b.size[3])>>)

ColorField(d, b) ==
    IF b.color.kind = "Index"
    THEN WriteBit("unique", FALSE) \o WriteUint("color_index", b.color.ind, color_count(d))
    ELSE WriteBit("unique", TRUE)
           \o WriteRawBytes("color_rgb", b.color.r * 65536 + b.color.g * 256 + b.color.b, 3)

\* the fields of one iteration of the brick loop, lines 143-205
BrickRecord(d, b) ==
    Concat(<<ByteAlign,
             WriteUint("asset_name_index", b.asset_name_index, asset_name_count(d)),
             SizeField(b),
             WriteIntPacked("position.x", b.position[1]),
             WriteIntPacked("position.y", b.position[2]),
             WriteIntPacked("position.z", b.position[3]),
             OrientationField(b),
             WriteBit("collision.player", b.collision.player),
             WriteBit("collision.weapon", b.collision.weapon),
             WriteBit("collision.interaction", b.collision.interaction),
             WriteBit("collision.tool", b.collision.tool),
             WriteBit("visibility", b.visibility),
             WriteUint("material_index", b.material_index, material_count(d)),
             WriteUint("physical_index", b.physical_index, physical_material_count(d)),
             IntensityField(b),
             ColorField(d, b),
             WriteUintPacked("owner_index", b.owner_index)>>)

\* the keys of brick.components
BrickKeys(b) == {c \in DOMAIN b.components : b.components[c].has}

\* the list replaced by a fresh one on every reference
PushIndexReplace(cb, key, idx) == (key :> <<idx>>) @@ cb

\* lines 207-214 for one key: push i, or insert a fresh list holding i
PushIndex(cb, key, idx) ==
    IF key \in DOMAIN cb
    THEN [cb EXCEPT ![key] = Append(@, idx)]
    ELSE (key :> <<idx>>) @@ cb

RECURSIVE PushAll(_, _, _)
PushAll(cb, keys, idx) ==
    IF keys = <<>> THEN cb
    ELSE PushAll(PushIndex(cb, Head(keys), idx), Tail(keys), idx)

----------------------------------------------------------------------------
(* write_bricks: one component of the component table, lines 224-266 *)

RECURSIVE IndexArray(_, _, _)
IndexArray(name, list, card) ==
    IF list = <<>> THEN <<>>
    ELSE <<[WriteUint("brick_index", Head(list), card)[1] EXCEPT !.c = name]>>
           \o IndexArray(name, Tail(list), card)

RECURSIVE PropertyArray(_)
PropertyArray(props) ==
    IF props = <<>> THEN <<>>
    ELSE WriteString("property.name", Head(props)[1])
           \o WriteString("property.type", Head(props)[2])
           \o PropertyArray(Tail(props))

\* the (brick index, property) pairs of lines 252-262, in the order visited
RECURSIVE Pairs(_, _)
Pairs(list, props) ==
    IF list = <<>> THEN <<>>
    ELSE [k \in 1..Len(props) |-> <<Head(list), props[k][1]>>] \o Pairs(Tail(list), props)

\* a lookup that substitutes a default for a missing value
HasValueOrDefault(d, name, pair) == TRUE

\* brick.components[&name][&p]: present iff p is a key of the brick's map
HasValue(d, name, pair) == pair[2] \in d.bricks[pair[1] + 1].components[name].props

\* the pairs written before the first missing value (all of them when none is)
RECURSIVE WrittenPairs(_, _, _)
WrittenPairs(d, name, pairs) ==
    IF pairs = <<>> \/ ~HasValue(d, name, Head(pairs)) THEN <<>>
    ELSE <<Head(pairs)>> \o WrittenPairs(d, name, Tail(pairs))

ValueTok(d, name, pair) ==
    Tok("value", "unreal", d.bricks[pair[1] + 1].components[name].val, pair[1], -1,
        pair[2], name)

\* one iteration of the component loop: the fields appended, and whether the
\* iteration panicked on a missing HashMap key
ComponentRecord(d, cb, name) ==
    LET comp   == d.components[name]
        head   == WriteString("component.name", name)
                    \o <<Tok("version", "bytes", comp.version, 4, 32, "", name)>>
    IN IF name \notin DOMAIN cb
       THEN [toks |-> head, panic |-> TRUE]
       ELSE LET list  == cb[name]
                pairs == Pairs(list, comp.properties)
                done  == WrittenPairs(d, name, pairs)
            IN [toks  |-> Concat(<<head,
                                   WriteI32("brick_indices.count", Len(list)),
                                   IndexArray(name, list, BrickIndexCardinality(d)),
                                   WriteI32("properties.count", Len(comp.properties)),
                                   PropertyArray(comp.properties),
                                   [k \in 1..Len(done) |-> ValueTok(d, name, done[k])],
                                   IF Len(done) = Len(pairs) THEN ByteAlign ELSE <<>>>>),
                panic |-> Len(done) # Len(pairs)]

----------------------------------------------------------------------------
(* Documents the writer is run on *)

CompNames == {"Health", "Light"}
PropNames == {"value", "extra"}

NoComponent == [has |-> FALSE, props |-> {}, val |-> 0]
NoComponents == [c \in CompNames |-> NoComponent]

BaseBrick ==
    [asset_name_index |-> 0, size |-> <<>>, position |-> <<0, 0, 0>>,
     direction |-> 0, rotation |-> 0,
     collision |-> [player |-> TRUE, weapon |-> TRUE, interaction |-> TRUE, tool |-> TRUE],
     visibility |-> TRUE, material_index |-> 0, physical_index |-> 0,
     material_intensity |-> 5,
     color |-> [kind |-> "Index", ind |-> 0, r |-> 0, g |-> 0, b |-> 0],
     owner_index |-> 0, components |-> NoComponents]

ProceduralBrick ==
    [BaseBrick EXCEPT !.asset_name_index = 1, !.size = <<4, 4, 6>>,
                      !.position = <<-5, 0, 3>>, !.direction = 5, !.rotation = 3,
                      !.collision.weapon = FALSE, !.visibility = FALSE,
                      !.material_index = 1, !.physical_index = 1,
                      !.material_intensity = 10,
                      !.color = [kind |-> "Unique", ind |-> 0, r |-> 10, g |-> 20, b |-> 30],
                      !.owner_index = 1]

IndexedBrick ==
    [BaseBrick EXCEPT !.direction = 2, !.rotation = 1, !.material_intensity = 0,
                      !.color.ind = 1]

ScalarBricks == {BaseBrick, ProceduralBrick, IndexedBrick}

\* what one brick may hold in its component map
BrickComponentChoices ==
    {NoComponents,
     [NoComponents EXCEPT !["Health"] = [has |-> TRUE, props |-> {"value"}, val |-> 7]],
     [NoComponents EXCEPT !["Health"] = [has |-> TRUE, props |-> {}, val |-> 7]],
     [NoComponents EXCEPT !["Health"] = [has |-> TRUE, props |-> {"value", "extra"}, val |-> 8]],
     [NoComponents EXCEPT !["Health"] = [has |-> TRUE, props |-> {"value"}, val |-> 9],
                          !["Light"] = [has |-> TRUE, props |-> {}, val |-> 0]]}

ComponentBricks == {[BaseBrick EXCEPT !.components = m] : m \in BrickComponentChoices}

NoSchema == [present |-> FALSE, version |-> 0, properties |-> <<>>]

\* data.components: which components the document declares, with their schema
ComponentMaps ==
    {[c \in CompNames |-> IF c = "Health" THEN h ELSE l] :
        h \in {NoSchema,
               [present |-> TRUE, version |-> 1, properties |-> <<<<"value", "int">>>>],
               [present |-> TRUE, version |-> 2,
                properties |-> <<<<"value", "int">>, <<"extra", "bool">>>>]},
        l \in {NoSchema, [present |-> TRUE, version |-> 1, properties |-> <<>>]}}

NoComponentMap == [c \in CompNames |-> NoSchema]

Author == [id |-> 11, name |-> "author"]

BaseHeader1 ==
    [map |-> "Plate", author |-> Author, description |-> "",
     host |-> [some |-> FALSE, id |-> 0, name |-> ""], save_time |-> 0]

BaseHeader2 ==
    [mods |-> 0, brick_assets |-> 2, colors |-> 2, materials |-> 2,
     brick_owners |-> 1, physical_materials |-> 2]

NoPreview == [type |-> 0, bytes |-> <<>>]

BaseDoc ==
    [game_version |-> 6, header1 |-> BaseHeader1, header2 |-> BaseHeader2,
     preview |-> NoPreview, bricks |-> <<>>, components |-> NoComponentMap]

SeqsUpTo(S, n) == UNION {[1..k -> S] : k \in 0..n}

\* documents that differ in host, preview and brick count
HeaderDocs ==
    {[BaseDoc EXCEPT !.header1.host = h, !.preview = p, !.bricks = bs] :
        h \in {BaseHeader1.host, [some |-> TRUE, id |-> 12, name |-> "host"]},
        p \in {NoPreview, [type |-> 1, bytes |-> <<137, 80>>]},
        bs \in {<<>>, <<BaseBrick, ProceduralBrick>>}}

\* documents that differ in the sizes of the four lookup tables
TableDocs ==
    {[BaseDoc EXCEPT !.header2.brick_assets = a, !.header2.materials = m,
                     !.header2.physical_materials = ph, !.header2.colors = c,
                     !.bricks = <<b>>] :
        a \in 0..MaxTable, m \in 0..MaxTable, ph \in 0..MaxTable, c \in 0..MaxTable,
        b \in ScalarBricks}

\* documents that differ in the components declared and referenced
ComponentDocs ==
    {[BaseDoc EXCEPT !.bricks = bs, !.components = cm] :
        bs \in SeqsUpTo(ComponentBricks, MaxBricks), cm \in ComponentMaps}

Docs == HeaderDocs \cup TableDocs \cup ComponentDocs

Bytes == {0, 255}
Inputs == SeqsUpTo(Bytes, MaxLen)

----------------------------------------------------------------------------
(* The writer as a state machine *)

EmptyMap == [c \in {} |-> <<>>]

\* a sink write whose error is dropped instead of returned
AfterWriteIgnored(ok, next) == next

\* the `?` after a sink write: go on when it succeeded, return Err otherwise
AfterWrite(ok, next) == IF ok THEN next ELSE "done"

\* write() with write_preview called before write_header2
AfterBlockSwapped(s) ==
    CASE s = "identity" -> "preview_type"
      [] s = "catalog" -> "bricks_begin"
      [] s = "bricks" -> "components_begin"
      [] s = "components" -> "return"
      [] s = "block" -> "read_block"

\* what write() and write_header1 do once a block has been framed
AfterBlock(s) ==
    CASE s = "identity" -> "header2"
      [] s = "catalog" -> "preview_type"
      [] s = "bricks" -> "components_begin"
      [] s = "components" -> "return"
      [] s = "block" -> "read_block"

SinkWrite(s, item, next) ==
    \E ok \in BOOLEAN :
        /\ writes' = Append(writes, [sec |-> s, part |-> item.part, n |-> item.n,
                                     data |-> item.data, ok |-> ok])
        /\ pc' = AfterWrite(ok, next)
        /\ outcome' = IF ok THEN outcome ELSE "io_error"

Item(part, n, data) == [part |-> part, n |-> n, data |-> data]

MAGIC_BYTES == <<66, 82, 83, 0>>
SAVE_VERSION == 10

InitCommon ==
    /\ sec = "none"
    /\ vec = <<>>
    /\ i = 0
    /\ component_bricks = EmptyMap
    /\ todo = {}
    /\ writes = <<>>
    /\ outcome = "running"
    /\ result = [ok |-> FALSE, bytes |-> <<>>, consumed |-> 0]

Init ==
    /\ doc \in Docs
    /\ input = <<>>
    /\ pc = "header0_magic"
    /\ InitCommon

\* write_header0
WriteMagic ==
    /\ pc = "header0_magic"
    /\ SinkWrite("header0", Item("magic", 4, MAGIC_BYTES), "header0_version")
    /\ UNCHANGED <<doc, input, sec, vec, i, component_bricks, todo, result>>

WriteSaveVersion ==
    /\ pc = "header0_version"
    /\ SinkWrite("header0", Item("format_version", SAVE_VERSION, <<>>), "header0_game")
    /\ UNCHANGED <<doc, input, sec, vec, i, component_bricks, todo, result>>

WriteGameVersion ==
    /\ pc = "header0_game"
    /\ SinkWrite("header0", Item("game_version", doc.game_version, <<>>), "header1")
    /\ UNCHANGED <<doc, input, sec, vec, i, component_bricks, todo, result>>

\* write_header1 after write_header0: build the buffer, call write_compressed
WriteHeader1 ==
    /\ pc = "header1"
    /\ vec' = Header1Bytes(doc)
    /\ sec' = "identity"
    /\ pc' = "wc_ulen"
    /\ UNCHANGED <<doc, input, i, component_bricks, todo, writes, outcome, result>>

WriteHeader2 ==
    /\ pc = "header2"
    /\ vec' = Header2Bytes(doc)
    /\ sec' = "catalog"
    /\ pc' = "wc_ulen"
    /\ UNCHANGED <<doc, input, i, component_bricks, todo, writes, outcome, result>>

\* write_preview
WritePreviewType ==
    /\ pc = "preview_type"
    /\ SinkWrite("preview", Item("type", doc.preview.type, <<>>),
                 IF doc.preview.type = 0 THEN "bricks_begin" ELSE "preview_len")
    /\ UNCHANGED <<doc, input, sec, vec, i, component_bricks, todo, result>>

WritePreviewLen ==
    /\ pc = "preview_len"
    /\ SinkWrite("preview", Item("len", Len(doc.preview.bytes), <<>>), "preview_bytes")
    /\ UNCHANGED <<doc, input, sec, vec, i, component_bricks, todo, result>>

WritePreviewBytes ==
    /\ pc = "preview_bytes"
    /\ SinkWrite("preview", Item("bytes", Len(doc.preview.bytes), doc.preview.bytes),
                 "bricks_begin")
    /\ UNCHANGED <<doc, input, sec, vec, i, component_bricks, todo, result>>

\* write_bricks, lines 131-140
WriteBricksBegin ==
    /\ pc = "bricks_begin"
    /\ vec' = <<>>
    /\ component_bricks' = EmptyMap
    /\ i' = 0
    /\ pc' = "bricks_loop"
    /\ UNCHANGED <<doc, input, sec, todo, writes, outcome, result>>

\* one iteration of the brick loop, lines 142-215
BrickIter ==
    /\ pc = "bricks_loop"
    /\ i < Len(doc.bricks)
    /\ LET b == doc.bricks[i + 1]
       IN /\ vec' = vec \o BrickRecord(doc, b)
          /\ component_bricks' = PushAll(component_bricks, SetToSeq(BrickKeys(b)), i)
    /\ i' = i + 1
    /\ UNCHANGED <<doc, input, pc, sec, todo, writes, outcome, result>>

\* lines 217-219: align and frame the brick table
BricksFlush ==
    /\ pc = "bricks_loop"
    /\ i = Len(doc.bricks)
    /\ vec' = vec \o ByteAlign
    /\ sec' = "bricks"
    /\ pc' = "wc_ulen"
    /\ UNCHANGED <<doc, input, i, component_bricks, todo, writes, outcome, result>>

\* lines 221-222
ComponentsBegin ==
    /\ pc = "components_begin"
    /\ todo' = {c \in CompNames : doc.components[c].present}
    /\ vec' = WriteI32("component_count",
                       Cardinality({c \in CompNames : doc.components[c].present}))
    /\ pc' = "components_loop"
    /\ UNCHANGED <<doc, input, sec, i, component_bricks, writes, outcome, result>>

\* one iteration of the component loop, lines 224-266, in HashMap order
ComponentIter ==
    /\ pc = "components_loop"
    /\ \E name \in todo :
          LET r == ComponentRecord(doc, component_bricks, name)
          IN /\ vec' = vec \o r.toks
             /\ todo' = todo \ {name}
             /\ pc' = IF r.panic THEN "done" ELSE pc
             /\ outcome' = IF r.panic THEN "panic" ELSE outcome
    /\ UNCHANGED <<doc, input, sec, i, component_bricks, writes, result>>

\* line 268
ComponentsFlush ==
    /\ pc = "components_loop"
    /\ todo = {}
    /\ sec' = "components"
    /\ pc' = "wc_ulen"
    /\ UNCHANGED <<doc, input, vec, i, component_bricks, todo, writes, outcome, result>>

\* write(): Ok(())
WriteReturn ==
    /\ pc = "return"
    /\ pc' = "done"
    /\ outcome' = "ok"
    /\ UNCHANGED <<doc, input, sec, vec, i, component_bricks, todo, writes, result>>

\* write_compressed(writer, vec), one sink write per step
WriteULen ==
    /\ pc = "wc_ulen"
    /\ SinkWrite(sec, BlockWrites(vec)[1], "wc_clen")
    /\ UNCHANGED <<doc, input, sec, vec, i, component_bricks, todo, result>>

WriteCLen ==
    /\ pc = "wc_clen"
    /\ SinkWrite(sec, BlockWrites(vec)[2], "wc_payload")
    /\ UNCHANGED <<doc, input, sec, vec, i, component_bricks, todo, result>>

WritePayload ==
    /\ pc = "wc_payload"
    /\ SinkWrite(sec, BlockWrites(vec)[3], AfterBlock(sec))
    /\ UNCHANGED <<doc, input, sec, vec, i, component_bricks, todo, result>>

Next ==
    \/ WriteMagic \/ WriteSaveVersion \/ WriteGameVersion
    \/ WriteHeader1 \/ WriteHeader2
    \/ WritePreviewType \/ WritePreviewLen \/ WritePreviewBytes
    \/ WriteBricksBegin \/ BrickIter \/ BricksFlush
    \/ ComponentsBegin \/ ComponentIter \/ ComponentsFlush
    \/ WriteULen \/ WriteCLen \/ WritePayload
    \/ WriteReturn

Spec == Init /\ [][Next]_vars

----------------------------------------------------------------------------
(* write_compressed on its own, followed by the block reader *)

\* the bytes the sink received
RECURSIVE Wire(_)
Wire(ws) ==
    IF ws = <<>> THEN <<>>
    ELSE (IF ~Head(ws).ok THEN <<>>
          ELSE IF Head(ws).part = "payload" THEN Head(ws).data
          ELSE LE32(Head(ws).n)) \o Wire(Tail(ws))

\* read_block: uncompressed_len, compressed_len, then the payload
ReadBlockOf(w) ==
    IF Len(w) < 8 THEN [ok |-> FALSE, bytes |-> <<>>, consumed |-> 0]
    ELSE LET ulen == FromLE32(SubSeq(w, 1, 4))
             clen == FromLE32(SubSeq(w, 5, 8))
         IN IF clen = 0
            THEN [ok |-> ulen >= 0 /\ Len(w) >= 8 + ulen,
                  bytes |-> SubSeq(w, 9, 8 + ulen), consumed |-> 8 + ulen]
            ELSE LET z == Inflate(SubSeq(w, 9, 8 + clen))
                 IN [ok |-> /\ clen > 0 /\ Len(w) >= 8 + clen
                            /\ z.ok /\ Len(z.bytes) = ulen,
                     bytes |-> z.bytes, consumed |-> 8 + clen]

InitBlock ==
    /\ doc = BaseDoc
    /\ input \in Inputs
    /\ pc = "block_call"
    /\ InitCommon

\* the caller hands its bytes to write_compressed
BlockCall ==
    /\ pc = "block_call"
    /\ vec' = input
    /\ sec' = "block"
    /\ pc' = "wc_ulen"
    /\ UNCHANGED <<doc, input, i, component_bricks, todo, writes, outcome, result>>

ReadBlock ==
    /\ pc = "read_block"
    /\ result' = ReadBlockOf(Wire(writes))
    /\ pc' = "done"
    /\ outcome' = "ok"
    /\ UNCHANGED <<doc, input, sec, vec, i, component_bricks, todo, writes>>

NextBlock == BlockCall \/ WriteULen \/ WriteCLen \/ WritePayload \/ ReadBlock

SpecBlock == InitBlock /\ [][NextBlock]_vars

----------------------------------------------------------------------------
(* Properties *)

Done == pc = "done"
AllWritesOk == \A k \in 1..Len(writes) : writes[k].ok

\* <<section, part>> of every sink write, in order
Layout == [k \in 1..Len(writes) |-> <<writes[k].sec, writes[k].part>>]

Framed(s) == <<<<s, "ulen">>, <<s, "clen">>, <<s, "payload">>>>

ExpectedLayout(d) ==
    Concat(<<<<<<"header0", "magic">>, <<"header0", "format_version">>,
               <<"header0", "game_version">>>>,
             Framed("identity"),
             Framed("catalog"),
             <<<<"preview", "type">>>>,
             IF d.preview.type # 0
             THEN <<<<"preview", "len">>, <<"preview", "bytes">>>> ELSE <<>>,
             Framed("bricks"),
             Framed("components")>>)

\* C1: a successful write() has made exactly these sink writes, in this order,
\* each once: magic, format version, game version, identity block, catalog
\* block, preview (type byte, then length and bytes only when the type is
\* nonzero), brick table block, component table block: four framed blocks with
\* the preview between the second and the third.
C1_WireLayout ==
    (Done /\ outcome = "ok") =>
        /\ AllWritesOk
        /\ Layout = ExpectedLayout(doc)
        /\ writes[1].data = MAGIC_BYTES
        /\ writes[2].n = SAVE_VERSION
        /\ writes[3].n = doc.game_version
        /\ Cardinality({k \in 1..Len(writes) : writes[k].part = "payload"}) = 4

C1_Witness ==
    /\ Done /\ outcome = "ok"
    /\ doc.preview.type # 0
    /\ Len(writes) = 18

\* C2: write_compressed(bytes) emits uncompressed_len = len(bytes) and, when
\* the deflate compression of bytes is strictly shorter than bytes, a nonzero
\* compressed_len = len(candidate) followed by the candidate; otherwise
\* compressed_len = 0 followed by bytes verbatim.
C2_CompressedWhenSmaller ==
    (Len(writes) = 3 /\ AllWritesOk /\ writes[1].sec = "block") =>
        LET candidate == ZlibOf(input)
        IN /\ writes[1].n = Len(input)
           /\ IF Len(candidate) < Len(input)
              THEN /\ writes[2].n = Len(candidate)
                   /\ writes[2].n # 0
                   /\ writes[3].data = candidate
                   /\ Len(writes[3].data) < Len(input)
              ELSE /\ writes[2].n = 0
                   /\ writes[3].data = input

\* C3: read_block applied to what write_compressed(b) emitted succeeds, returns
\* exactly b and consumes exactly the emitted bytes, at most 8 + len(b) of them.
C3_BlockRoundTrip ==
    (Done /\ outcome = "ok" /\ sec = "block") =>
        /\ result.ok
        /\ result.bytes = input
        /\ result.consumed = Len(Wire(writes))
        /\ result.consumed <= 8 + Len(input)

C3_Witness ==
    /\ Done /\ outcome = "ok" /\ sec = "block"
    /\ Len(ZlibOf(input)) < Len(input)
    /\ result.bytes = input

\* the fields of the brick table, once it is being framed or has been emitted
BrickFields ==
    IF \E k \in 1..Len(writes) : writes[k].sec = "bricks" /\ writes[k].part = "payload"
    THEN writes[CHOOSE k \in 1..Len(writes) :
                   writes[k].sec = "bricks" /\ writes[k].part = "payload"].data
    ELSE IF sec = "bricks" THEN vec
    ELSE <<>>

FieldsNamed(buf, f) == SelectSeq(buf, LAMBDA t : t.f = f)

TableOf(f) ==
    CASE f = "asset_name_index" -> doc.header2.brick_assets
      [] f = "material_index" -> doc.header2.materials
      [] f = "physical_index" -> doc.header2.physical_materials
      [] f = "color_index" -> doc.header2.colors

IndexFieldNames == {"asset_name_index", "material_index", "physical_index", "color_index"}

Floor2(len) == IF len < 2 THEN 2 ELSE len

SchemaNames(d, c) == {d.components[c].properties[k][1] : k \in 1..Len(d.components[c].properties)}

Unknown(d) ==
    \E k \in 1..Len(d.bricks) : \E c \in CompNames :
        /\ d.bricks[k].components[c].has
        /\ \/ ~d.components[c].present
           \/ d.bricks[k].components[c].props \ SchemaNames(d, c) # {}

\* C5: when a brick names an undeclared component or holds a property outside
\* the schema, write_bricks and write() end in a failure.
C5_UnknownFails == (Unknown(doc) /\ Done) => outcome # "ok"

\* a brick references a declared component but lacks a value of its schema
MissingPairs(d) ==
    {<<c, k, p>> \in CompNames \X (1..Len(d.bricks)) \X PropNames :
        /\ d.components[c].present
        /\ d.bricks[k].components[c].has
        /\ p \in SchemaNames(d, c)
        /\ p \notin d.bricks[k].components[c].props}

\* C6: when a brick references a declared component and lacks a value for a
\* property of its schema, encoding ends in a failure, no value is written for
\* the missing (brick, property) pair, and no part of the component table block
\* reaches the sink.
C6_MissingValueFails ==
    MissingPairs(doc) # {} =>
        /\ Done => outcome # "ok"
        /\ pc # "return"
        /\ \A k \in 1..Len(writes) : writes[k].sec # "components"
        /\ \A m \in MissingPairs(doc) : \A k \in 1..Len(vec) :
              ~(vec[k].f = "value" /\ vec[k].c = m[1] /\ vec[k].n = m[2] - 1
                  /\ vec[k].s = m[3])

C6_Witness ==
    /\ MissingPairs(doc) # {}
    /\ Done /\ outcome = "panic"
    /\ \E k \in 1..Len(vec) : vec[k].f = "value"

\* the indices of the bricks that hold component c, ascending
RECURSIVE RefList(_, _, _)
RefList(d, c, n) ==
    IF n = 0 THEN <<>>
    ELSE RefList(d, c, n - 1)
           \o (IF d.bricks[n].components[c].has THEN <<n - 1>> ELSE <<>>)

ComponentFields ==
    IF \E k \in 1..Len(writes) : writes[k].sec = "components" /\ writes[k].part = "payload"
    THEN writes[CHOOSE k \in 1..Len(writes) :
                   writes[k].sec = "components" /\ writes[k].part = "payload"].data
    ELSE <<>>

WrittenIndices(buf, c) ==
    LET ts == SelectSeq(buf, LAMBDA t : t.f = "brick_index" /\ t.c = c)
    IN [k \in 1..Len(ts) |-> ts[k].v]

\* C7: once the brick loop has run, the list accumulated for a component name
\* exists iff some brick holds the component, is strictly ascending, holds i iff
\* brick i holds the component, and is what the component's brick-index array
\* is written from.
C7_IndexLists ==
    sec \in {"bricks", "components"} =>
        \A c \in CompNames :
            /\ c \in DOMAIN component_bricks <=>
                   \E k \in 1..Len(doc.bricks) : doc.bricks[k].components[c].has
            /\ c \in DOMAIN component_bricks =>
                   LET list == component_bricks[c]
                   IN /\ \A a, b \in 1..Len(list) : a < b => list[a] < list[b]
                      /\ \A n \in 0..(Len(doc.bricks) - 1) :
                             (\E a \in 1..Len(list) : list[a] = n)
                                 <=> doc.bricks[n + 1].components[c].has
                      /\ list = RefList(doc, c, Len(doc.bricks))
                      /\ (outcome = "ok" /\ doc.components[c].present) =>
                             WrittenIndices(ComponentFields, c) = list

C7_Witness ==
    /\ Done /\ outcome = "ok"
    /\ Len(doc.bricks) = 3
    /\ "Health" \in DOMAIN component_bricks
    /\ component_bricks["Health"] = <<0, 2>>
    /\ WrittenIndices(ComponentFields, "Health") = <<0, 2>>

\* C8: every index field of a brick record is sized from max(len(table), 2),
\* which is at least 2 (a field of at least one bit) also for a table of 0 or
\* 1 entries; a component brick index is sized from max(brick_count, 2).
C8_CardinalityFloor ==
    /\ \A k \in 1..Len(BrickFields) :
          LET t == BrickFields[k]
          IN t.f \in IndexFieldNames =>
                 /\ t.n >= 2 /\ t.bits >= 1
                 /\ t.n = Floor2(TableOf(t.f))
    /\ \A k \in 1..Len(vec) :
          vec[k].f = "brick_index" =>
              /\ vec[k].n >= 2 /\ vec[k].bits >= 1
              /\ vec[k].n = Floor2(Len(doc.bricks))

C8_Witness ==
    /\ sec = "components"
    /\ doc.header2.brick_assets = 0
    /\ doc.header2.colors = 1
    /\ \E k \in 1..Len(BrickFields) :
          BrickFields[k].f = "asset_name_index" /\ BrickFields[k].n = 2
    /\ \E k \in 1..Len(BrickFields) :
          BrickFields[k].f = "color_index" /\ BrickFields[k].n = 2

Declared(d) == {c \in CompNames : d.components[c].present}

\* C10: with no sink failure and no missing value, write_bricks succeeds and
\* the component table block carries component_count = the number of declared
\* components and one record per declared component, referenced or not; an
\* unreferenced component has an empty brick-index array.
C10_EveryComponentWritten ==
    (Done /\ AllWritesOk /\ MissingPairs(doc) = {}) =>
        /\ outcome = "ok"
        /\ ComponentFields[1].v = Cardinality(Declared(doc))
        /\ \A c \in Declared(doc) :
              /\ Len(SelectSeq(ComponentFields,
                               LAMBDA t : t.f = "component.name" /\ t.s = c)) = 1
              /\ WrittenIndices(ComponentFields, c) = RefList(doc, c, Len(doc.bricks))

====
